---------------------------- MODULE Spec2Model ----------------------------
(***************************************************************************)
(* A model of adb-sync (src/main.py): the command line entry `main`, the   *)
(* AdbSync object with its counters, and the pull run: the top-level       *)
(* listing, the per-root recursive listing, the filter, the path mapper,   *)
(* the copy decision and the skip log.                                     *)
(*                                                                         *)
(* Text is modelled as sequences of one-character strings, so that         *)
(* splitting, lower-casing, substring search, character replacement,       *)
(* decimal formatting and int() are computed, not assumed.                 *)
(***************************************************************************)
EXTENDS Integers, Sequences, FiniteSets, TLC

(***************************************************************************)
(* Bounds of the model.                                                    *)
(***************************************************************************)
\* the most file lines one recursive listing holds
MaxFiles == 2

(***************************************************************************)
(* Program constants.                                                      *)
(***************************************************************************)
\* the overwrite slack of `remote_time - local_time > -100`
Slack == 100
\* None, the value of the counters outside pull_folder
NoneVal == -1

(***************************************************************************)
(* Text helpers: Python's str and re operations used by the program.       *)
(***************************************************************************)
UpperChars ==
    <<"A","B","C","D","E","F","G","H","I","J","K","L","M",
      "N","O","P","Q","R","S","T","U","V","W","X","Y","Z">>

LowerChars ==
    <<"a","b","c","d","e","f","g","h","i","j","k","l","m",
      "n","o","p","q","r","s","t","u","v","w","x","y","z">>

\* str.lower() on one character
LowerChar(c) ==
    IF \E i \in 1..26 : UpperChars[i] = c
    THEN LowerChars[CHOOSE i \in 1..26 : UpperChars[i] = c]
    ELSE c

\* str.lower()
Lower(s) == [i \in 1..Len(s) |-> LowerChar(s[i])]

\* `sub in s`
Contains(s, sub) ==
    \E i \in 1..(Len(s) - Len(sub) + 1) : SubSeq(s, i, i + Len(sub) - 1) = sub

\* str.split(sep) / re.split("[...]", s) for single-character separators:
\* n separators give n + 1 pieces, empty pieces included
RECURSIVE Split(_, _)
Split(s, seps) ==
    IF \A i \in 1..Len(s) : s[i] \notin seps
    THEN <<s>>
    ELSE LET i == CHOOSE k \in 1..Len(s) :
                      /\ s[k] \in seps
                      /\ \A j \in 1..(k - 1) : s[j] \notin seps
         IN  <<SubSeq(s, 1, i - 1)>> \o Split(SubSeq(s, i + 1, Len(s)), seps)

\* `x in lst`
InList(lst, x) == \E i \in 1..Len(lst) : lst[i] = x

\* list.remove(x) when x is in the list: the first occurrence goes
ListRemove(lst, x) ==
    LET i == CHOOSE k \in 1..Len(lst) :
                 /\ lst[k] = x
                 /\ \A j \in 1..(k - 1) : lst[j] # x
    IN  SubSeq(lst, 1, i - 1) \o SubSeq(lst, i + 1, Len(lst))

RECURSIVE Concat(_)
\* the concatenation of a sequence of texts
Concat(ss) == IF ss = <<>> THEN <<>> ELSE Head(ss) \o Concat(Tail(ss))

\* posixpath.join(base, *parts)
RECURSIVE OsPathJoin(_, _)
OsPathJoin(base, parts) ==
    IF parts = <<>> THEN base
    ELSE LET p == Head(parts)
             joined == IF p # <<>> /\ p[1] = "/" THEN p
                       ELSE IF base = <<>> \/ base[Len(base)] = "/" THEN base \o p
                       ELSE base \o <<"/">> \o p
         IN  OsPathJoin(joined, Tail(parts))

\* os.path.dirname(path): what precedes the last "/"
Dirname(path) ==
    IF \A i \in 1..Len(path) : path[i] # "/" THEN <<>>
    ELSE LET i == CHOOSE k \in 1..Len(path) :
                      /\ path[k] = "/"
                      /\ \A j \in (k + 1)..Len(path) : path[j] # "/"
         IN  SubSeq(path, 1, i - 1)

DigitChars == <<"0","1","2","3","4","5","6","7","8","9">>

IsDigit(c) == \E d \in 1..10 : DigitChars[d] = c

DigitValue(c) == (CHOOSE d \in 1..10 : DigitChars[d] = c) - 1

\* the decimal text of a natural number, as the device's stat prints it
RECURSIVE FormatNat(_)
FormatNat(n) ==
    IF n < 10 THEN <<DigitChars[n + 1]>>
    ELSE FormatNat(n \div 10) \o <<DigitChars[(n % 10) + 1]>>

WhiteChars == {" ", "\n", "\t", "\r"}

\* str.strip()
RECURSIVE Strip(_)
Strip(s) ==
    IF s = <<>> THEN s
    ELSE IF s[1] \in WhiteChars THEN Strip(Tail(s))
    ELSE IF s[Len(s)] \in WhiteChars THEN Strip(SubSeq(s, 1, Len(s) - 1))
    ELSE s

RECURSIVE DigitsValue(_)
DigitsValue(s) ==
    IF s = <<>> THEN 0
    ELSE 10 * DigitsValue(SubSeq(s, 1, Len(s) - 1)) + DigitValue(s[Len(s)])

\* int(float(text)): a fraction after the digits is accepted and dropped
IntParse_ViaFloat(text) ==
    LET s == Strip(text)
        whole == Head(Split(s, {"."}))
        ok == whole # <<>> /\ \A i \in 1..Len(whole) : IsDigit(whole[i])
    IN  [ok |-> ok, val |-> IF ok THEN DigitsValue(whole) ELSE 0]

\* int(text): surrounding whitespace is dropped, an optional sign, then
\* decimal digits only; anything else is a ValueError (ok = FALSE)
IntParse(text) ==
    LET s == Strip(text)
        signed == s # <<>> /\ s[1] \in {"+", "-"}
        digits == IF signed THEN Tail(s) ELSE s
        ok == digits # <<>> /\ \A i \in 1..Len(digits) : IsDigit(digits[i])
    IN  [ok |-> ok,
         val |-> IF ~ok THEN 0
                 ELSE IF signed /\ s[1] = "-" THEN 0 - DigitsValue(digits)
                 ELSE DigitsValue(digits)]


(***************************************************************************)
(* Texts of the program.                                                   *)
(***************************************************************************)
SDCARD == <<"/", "s", "d", "c", "a", "r", "d", "/">>

\* "/sdcard/Android", removed from the discovered roots
SDCARD_ANDROID == SDCARD \o <<"A", "n", "d", "r", "o", "i", "d">>

\* "/sdcard/Android/media/com.whatsapp", appended to the roots
WHATSAPP ==
    SDCARD_ANDROID \o <<"/", "m", "e", "d", "i", "a", "/", "c", "o", "m", ".",
                        "w", "h", "a", "t", "s", "a", "p", "p">>

\* "adb: error:", the error marker looked for in the copy's output
ADB_ERROR == <<"a", "d", "b", ":", " ", "e", "r", "r", "o", "r", ":">>

\* the block list of the filter
BlockList ==
    { <<"c", "a", "c", "h", "e">>,
      <<".", "t", "h", "u", "m", "b", "n", "a", "i", "l", "s">>,
      <<".", "m", "c", "r", "y", "p", "t", "1">>,
      <<".", "t", "r", "a", "s", "h", "e", "d">> }

\* the characters the path mapper replaces by "-"
Forbidden == {":", "*", "?", "\"", "<", ">", "|"}

\* self.local, the local root given on the command line
local == <<"b", "k">>

(***************************************************************************)
(* The device behind the bridge tool: what its commands can print.         *)
(***************************************************************************)
\* "/sdcard/D", a discovered root
ROOT_D == SDCARD \o <<"D">>

\* the files the device may hold under a root
FilesOf(source) ==
    IF source = ROOT_D
    THEN { ROOT_D \o <<"/", "a", "-", "b">>,
           ROOT_D \o <<"/", "a", ":", "b">>,
           ROOT_D \o <<"/", ".", "T", "h", "u", "m", "b", "n", "a", "i", "l", "s", "/", "t">>,
           ROOT_D \o <<"/", "C", "a", "c", "h", "e">> }
    ELSE IF source = WHATSAPP
    THEN { WHATSAPP \o <<"/", "m">> }
    ELSE {}

AllFiles == FilesOf(ROOT_D) \cup FilesOf(WHATSAPP)

\* the sequences of at most n distinct elements of S
RECURSIVE Listings(_, _)
Listings(S, n) ==
    IF n = 0 THEN { <<>> }
    ELSE { <<>> } \cup
         UNION { { <<f>> \o rest : rest \in Listings(S \ {f}, n - 1) } : f \in S }

\* each line followed by a newline, as ls and find print
Unlines(lines) == Concat([i \in 1..Len(lines) |-> lines[i] \o <<"\n">>])

\* stdout of `find <source> -type f`: empty when the device holds nothing
\* there or the command fails, else one line per file
FindOutputs(source) == { Unlines(l) : l \in Listings(FilesOf(source), MaxFiles) }

\* "ls: /sdcard/*: No such file or directory", an error printed in place
\* of a listing
LS_ERROR ==
    <<"l", "s", ":", " ">> \o SDCARD \o
    <<"*", ":", " ", "N", "o", " ", "s", "u", "c", "h", " ", "f", "i", "l", "e",
      " ", "o", "r", " ", "d", "i", "r", "e", "c", "t", "o", "r", "y">>

\* stdout of `ls -d /sdcard/*`: empty (no device: the error goes to stderr),
\* an error text, or one line per directory
LsOutputs ==
    { <<>>,
      Unlines(<<LS_ERROR>>),
      Unlines(<<ROOT_D>>),
      Unlines(<<SDCARD_ANDROID>>),
      Unlines(<<ROOT_D, SDCARD_ANDROID>>) }

\* modification times (seconds) a file on the device may carry
RemoteTimes == {100, 101}

\* what `stat <file> -c %.9Y` may print for a file modified at second r:
\* the seconds as an integer, the seconds with a nine-digit fraction, or
\* nothing (the command failed)
RespKinds == {"int", "frac", "none"}

StatOutput(r, kind) ==
    CASE kind = "int"  -> FormatNat(r) \o <<"\n">>
      [] kind = "frac" -> FormatNat(r) \o <<".", "0", "0", "0", "0", "0", "0", "0", "0", "0", "\n">>
      [] OTHER         -> <<>>

PULLED == <<"1", " ", "f", "i", "l", "e", " ", "p", "u", "l", "l", "e", "d", ".", "\n">>

\* stdout of `adb pull`: a report of the copy, an error, or nothing
PullOutputs == { PULLED, ADB_ERROR \o <<" ", "f", "a", "i", "l", "e", "d", "\n">>, <<>> }

(***************************************************************************)
(* The filter and the path mapper.                                         *)
(***************************************************************************)
\* the filter without .lower()
Keep_CaseSensitive(remote_file) ==
    /\ remote_file # <<>>
    /\ \A b \in BlockList : ~Contains(remote_file, b)

\* the condition of the loop of pull_folder: a non-empty path whose
\* lower-cased text holds no block-listed text
Keep(remote_file) ==
    /\ remote_file # <<>>
    /\ \A b \in BlockList : ~Contains(Lower(remote_file), b)

\* re.sub(r'[:*?"<>|]', "-", part)
Sanitize(part) == [i \in 1..Len(part) |-> IF part[i] \in Forbidden THEN "-" ELSE part[i]]

\* the local path of a remote file
LocalFile(remote_file) ==
    LET parts == Split(remote_file, {"/"})
    IN  OsPathJoin(local, [i \in 1..Len(parts) |-> Sanitize(parts[i])])

\* the local paths the run may look at
LocalPaths == { LocalFile(f) : f \in { g \in AllFiles : Keep(g) } }

(***************************************************************************)
(* The copy decision.                                                      *)
(***************************************************************************)
\* int(os.path.getmtime(local_file)); the local time is kept in half seconds
LocalTime(half) == half \div 2

\* the remote time asked for whatever the flag
StatAsked_IgnoresFlag(newer, exists) == exists

\* whether the remote time is asked for
StatAsked(newer, exists) == newer /\ exists

\* overwrite with >= in place of >
Overwrite_Geq(half, response) ==
    LET parsed == IntParse(response)
    IN  parsed.ok /\ parsed.val - LocalTime(half) >= 0 - Slack

\* overwrite, once the remote time was asked for
Overwrite(half, response) ==
    LET parsed == IntParse(response)
    IN  parsed.ok /\ parsed.val - LocalTime(half) > 0 - Slack

\* the copy run only to overwrite
DoCopy_OnlyOverwrite(exists, overwrite) == overwrite

\* whether the copy is run
DoCopy(exists, overwrite) == ~exists \/ overwrite

\* whether the output of the copy counts as an error
HasErrorMarker(msg) == msg # <<>> /\ Contains(msg, ADB_ERROR)

(***************************************************************************)
(* The skip log of pull.                                                   *)
(***************************************************************************)
\* os.path.dirname(__file__)
SCRIPT_DIR == <<"/", "a", "p", "p">>

SKIPPED_DIR == <<"s", "k", "i", "p", "p", "e", "d">>

\* the directories that exist beside the script; none is named after the
\* time of the run, which is only known when the log is opened
ScriptDirs == { SCRIPT_DIR, OsPathJoin(SCRIPT_DIR, <<SKIPPED_DIR>>) }

\* f"skipped-{now}-{source}-{uuid4}.csv" joined below the script's folder,
\* with T for the time stamp and U for the uuid
SkippedPath(source) ==
    OsPathJoin(SCRIPT_DIR,
               << SKIPPED_DIR,
                  SKIPPED_DIR \o <<"-", "T", "-">> \o source \o
                      <<"-", "U", ".", "c", "s", "v">> >>)

\* open(path, "w+") creates the file only inside an existing directory
OpenSucceeds(path) == Dirname(path) \in ScriptDirs

(***************************************************************************)
(* The command line and the top-level listing.                             *)
(***************************************************************************)
\* the constraint of the Direction option group
MutuallyExclusive(pull_flag, push_flag) == ~(pull_flag /\ push_flag)

\* `if pull`: pull no longer the default
Dispatch_NoDefault(pull_flag, push_flag) == IF pull_flag THEN "pull" ELSE "push"

\* `if pull or not push` of main
Dispatch(pull_flag, push_flag) == IF pull_flag \/ ~push_flag THEN "pull" ELSE "push"

\* remote_folders of pull from the listing's stdout: split, remove(""),
\* remove("/sdcard/Android"), append; a failing remove is a ValueError
RemoteFolders(stdout) ==
    LET parts == Split(stdout, {"\t", "\n"})
        noEmpty == ListRemove(parts, <<>>)
    IN  IF ~InList(parts, <<>>) THEN [ok |-> FALSE, folders |-> <<>>]
        ELSE IF ~InList(noEmpty, SDCARD_ANDROID) THEN [ok |-> FALSE, folders |-> <<>>]
        ELSE [ok |-> TRUE,
              folders |-> Append(ListRemove(noEmpty, SDCARD_ANDROID), WHATSAPP)]

(***************************************************************************)
(* State.                                                                  *)
(***************************************************************************)
VARIABLES
    pc,                 \* where the program is
    exc,                \* the exception that ended the run, or "none"
    args,               \* the flags --pull and --push of the command line
    copy_newer,         \* self.copy_newer
    successes,          \* self.successes
    errors,             \* self.errors
    skipped,            \* self.skipped
    overwritten,        \* self.overwritten
    remote_folders_str, \* stdout of the top-level listing
    remote_folders,     \* the roots pull iterates
    ri,                 \* the index of the current root in remote_folders
    remote_files_str,   \* stdout of the recursive listing of the current root
    remote_files,       \* the split listing of the current root
    fi,                 \* the index of the current entry in remote_files
    returned,           \* the list the last pull_folder returned
    skipfiles,          \* the skip logs written so far
    localFS,            \* the local files: whether each exists, and its mtime
    localDirs,          \* the local directories that exist
    bridgeCalls,        \* the number of bridge-tool invocations so far
    log                 \* per entry of the current root: what was done with it

vars == << pc, exc, args, copy_newer, successes, errors, skipped, overwritten,
           remote_folders_str, remote_folders, ri, remote_files_str,
           remote_files, fi, returned, skipfiles, localFS, localDirs,
           bridgeCalls, log >>

\* the command line
cli == << args, copy_newer >>

\* the object's counters and list
counters == << successes, errors, skipped, overwritten >>

\* the locals of pull
roots == << remote_folders_str, remote_folders, ri >>

\* the locals of pull_folder
files == << remote_files_str, remote_files, fi >>

\* the local file system
disk == << localFS, localDirs >>

\* local modification times, in half seconds: 200 s and 200.5 s
LocalTimes == {400, 401}

Absent == [exists |-> FALSE, half |-> 0]

\* the local trees a run may start from: any of the local paths may exist,
\* the existing ones modified at the same time
LocalTrees ==
    { [p \in LocalPaths |-> IF p \in E THEN [exists |-> TRUE, half |-> t] ELSE Absent] :
          E \in SUBSET LocalPaths, t \in LocalTimes }

\* the state when main is entered: the command line is given, the local
\* tree is there, and AdbSync.__init__ leaves the counters at None
Init ==
    /\ pc = "main"
    /\ exc = "none"
    /\ args \in [pull : BOOLEAN, push : BOOLEAN]
    /\ copy_newer \in BOOLEAN
    /\ successes = NoneVal
    /\ errors = NoneVal
    /\ skipped = <<>>
    /\ overwritten = NoneVal
    /\ remote_folders_str = <<>>
    /\ remote_folders = <<>>
    /\ ri = 0
    /\ remote_files_str = <<>>
    /\ remote_files = <<>>
    /\ fi = 0
    /\ returned = <<>>
    /\ skipfiles = <<>>
    /\ localFS \in LocalTrees
    /\ localDirs = { Dirname(p) : p \in { q \in LocalPaths : localFS[q].exists } }
    /\ bridgeCalls = 0
    /\ log = <<>>

(***************************************************************************)
(* main and push.                                                          *)
(***************************************************************************)
\* the command: the option group's constraint, then main's body
main ==
    /\ pc = "main"
    /\ IF ~MutuallyExclusive(args.pull, args.push)
       THEN pc' = "raised" /\ exc' = "UsageError"
       ELSE pc' = Dispatch(args.pull, args.push) /\ exc' = exc
    /\ UNCHANGED << cli, counters, roots, files, returned, skipfiles, disk,
                    bridgeCalls, log >>

\* AdbSync.push
push ==
    /\ pc = "push"
    /\ pc' = "raised"
    /\ exc' = "NotImplementedError"
    /\ UNCHANGED << cli, counters, roots, files, returned, skipfiles, disk,
                    bridgeCalls, log >>

(***************************************************************************)
(* pull, up to its loop over the roots.                                    *)
(***************************************************************************)
pull ==
    /\ pc = "pull"
    /\ \E stdout \in LsOutputs :
          LET rf == RemoteFolders(stdout)
          IN  /\ bridgeCalls' = bridgeCalls + 1
              /\ remote_folders_str' = stdout
              /\ IF ~rf.ok
                 THEN /\ pc' = "raised"
                      /\ exc' = "ValueError"
                      /\ UNCHANGED << remote_folders, ri >>
                 ELSE /\ remote_folders' = rf.folders
                      /\ ri' = 1
                      /\ pc' = IF rf.folders = <<>> THEN "done" ELSE "for_source"
                      /\ exc' = exc
    /\ UNCHANGED << cli, counters, files, returned, skipfiles, disk, log >>

(***************************************************************************)
(* pull_folder: the listing, the loop over its entries, the summary.       *)
(***************************************************************************)
\* pull_folder without `self.successes = 0`
PullFolderStart_NoReset(source) ==
    \E stdout \in FindOutputs(source) :
        /\ remote_files_str' = stdout
        /\ remote_files' = Split(stdout, {"\n"})
        /\ successes' = successes
        /\ errors' = 0
        /\ skipped' = <<>>
        /\ overwritten' = 0
        /\ fi' = 1
        /\ log' = <<>>
        /\ bridgeCalls' = bridgeCalls + 1
        /\ pc' = "for_file"

\* pull_folder up to its loop: the recursive listing is split on newlines
\* and the counters start at 0
PullFolderStart(source) ==
    \E stdout \in FindOutputs(source) :
        /\ remote_files_str' = stdout
        /\ remote_files' = Split(stdout, {"\n"})
        /\ successes' = 0
        /\ errors' = 0
        /\ skipped' = <<>>
        /\ overwritten' = 0
        /\ fi' = 1
        /\ log' = <<>>
        /\ bridgeCalls' = bridgeCalls + 1
        /\ pc' = "for_file"

\* the entry of the log for a path the filter rejected
Rejected(remote_file) ==
    [file |-> remote_file, kept |-> FALSE, existed |-> FALSE, half |-> 0,
     asked |-> FALSE, r |-> 0, kind |-> "unasked", pulls |-> 0,
     marker |-> FALSE, outcome |-> "Skipped"]

\* pull_file on one path. r is the file's modification time on the device,
\* kind the form of stat's answer, msg the stdout of the copy.
pull_file(remote_file, r, kind, msg) ==
    LET local_file == LocalFile(remote_file)
        exists == localFS[local_file].exists
        half == localFS[local_file].half
        asked == StatAsked(copy_newer, exists)
        overwrite == asked /\ Overwrite(half, StatOutput(r, kind))
        copy == DoCopy(exists, overwrite)
        failed == copy /\ HasErrorMarker(msg)
        copied == copy /\ msg = PULLED
        entry == [file |-> remote_file, kept |-> TRUE, existed |-> exists,
                  half |-> IF exists THEN half ELSE 0, asked |-> asked,
                  r |-> IF asked \/ copied THEN r ELSE 0,
                  kind |-> IF asked THEN kind ELSE "unasked",
                  pulls |-> IF copy THEN 1 ELSE 0,
                  marker |-> failed,
                  outcome |-> IF ~copy THEN "Skipped"
                              ELSE IF failed THEN "Error"
                              ELSE IF overwrite THEN "Overwritten"
                              ELSE "Success"]
    IN  /\ asked \/ kind = "int"
        /\ copy \/ msg = <<>>
        /\ bridgeCalls' = bridgeCalls + (IF asked THEN 1 ELSE 0) + (IF copy THEN 1 ELSE 0)
        /\ localDirs' = IF copy THEN localDirs \cup {Dirname(local_file)} ELSE localDirs
        /\ localFS' = IF copied
                      THEN [localFS EXCEPT ![local_file] = [exists |-> TRUE, half |-> 2 * r]]
                      ELSE localFS
        /\ errors' = IF failed THEN errors + 1 ELSE errors
        /\ successes' = IF copy /\ ~failed THEN successes + 1 ELSE successes
        /\ overwritten' = IF copy /\ ~failed
                          THEN overwritten + (IF overwrite THEN 1 ELSE 0)
                          ELSE overwritten
        /\ skipped' = IF copy THEN skipped ELSE Append(skipped, remote_file)
        /\ log' = Append(log, entry)

\* one pass of the loop of pull_folder
pull_folder_loop ==
    /\ pc = "for_file"
    /\ fi <= Len(remote_files)
    /\ LET remote_file == remote_files[fi]
       IN  IF Keep(remote_file)
           THEN \E r \in RemoteTimes, kind \in RespKinds, msg \in PullOutputs :
                    pull_file(remote_file, r, kind, msg)
           ELSE /\ skipped' = Append(skipped, remote_file)
                /\ log' = Append(log, Rejected(remote_file))
                /\ UNCHANGED << successes, errors, overwritten, disk, bridgeCalls >>
    /\ fi' = fi + 1
    /\ UNCHANGED << pc, exc, cli, roots, remote_files_str, remote_files,
                    returned, skipfiles >>

\* whether the loop of pull_folder has run through the listing
LoopDone == pc = "for_file" /\ fi > Len(remote_files)

\* pull_folder after its loop: the summary is printed, the skipped list is
\* copied and returned, the counters go back to None
pull_folder_return ==
    /\ LoopDone
    /\ returned' = skipped
    /\ successes' = NoneVal
    /\ errors' = NoneVal
    /\ skipped' = <<>>
    /\ overwritten' = NoneVal
    /\ pc' = "write_skipped"
    /\ UNCHANGED << exc, cli, roots, files, skipfiles, disk, bridgeCalls, log >>

(***************************************************************************)
(* The loop of pull over the roots.                                        *)
(***************************************************************************)
\* `for source in remote_folders: skipped = self.pull_folder(source)`
pull_for_source ==
    /\ pc = "for_source"
    /\ PullFolderStart(remote_folders[ri])
    /\ UNCHANGED << exc, cli, roots, returned, skipfiles, disk >>

\* the skip log of the root is opened and written, then the next root
pull_write_skipped ==
    /\ pc = "write_skipped"
    /\ IF OpenSucceeds(SkippedPath(remote_folders[ri]))
       THEN /\ skipfiles' = Append(skipfiles, [source |-> remote_folders[ri],
                                               lines |-> returned])
            /\ ri' = ri + 1
            /\ pc' = IF ri < Len(remote_folders) THEN "for_source" ELSE "done"
            /\ exc' = exc
       ELSE /\ pc' = "raised"
            /\ exc' = "FileNotFoundError"
            /\ UNCHANGED << skipfiles, ri >>
    /\ UNCHANGED << cli, counters, remote_folders_str, remote_folders, files,
                    returned, disk, bridgeCalls, log >>

Next ==
    \/ main
    \/ push
    \/ pull
    \/ pull_for_source
    \/ pull_folder_loop
    \/ pull_folder_return
    \/ pull_write_skipped

Spec == Init /\ [][Next]_vars

(***************************************************************************)
(* Vocabulary of the properties.                                           *)
(***************************************************************************)
\* the lower-cased path holds a block-listed text
Blocked(path) == \E b \in BlockList : Contains(Lower(path), b)

\* the skipped list of the current root: the object's while the loop runs,
\* the returned one afterwards
SkipList == IF pc = "for_file" THEN skipped ELSE returned

\* the bridge-tool invocations the log accounts for
RECURSIVE LoggedCalls(_)
LoggedCalls(l) ==
    IF l = <<>> THEN 0
    ELSE (IF Head(l).asked THEN 1 ELSE 0) + Head(l).pulls + LoggedCalls(Tail(l))

\* the number of entries of the log with one of the outcomes
CountOutcome(outcomes) ==
    Cardinality({ i \in 1..Len(log) : log[i].outcome \in outcomes })

\* the paths of the skipped entries of the log, in order
SkippedOfLog ==
    LET sel == SelectSeq(log, LAMBDA e : e.outcome = "Skipped")
    IN  [i \in 1..Len(sel) |-> sel[i].file]

\* the pull run was entered / the push was reached
PullEntered ==
    \/ pc \in {"pull", "for_source", "for_file", "write_skipped", "done"}
    \/ pc = "raised" /\ exc \in {"FileNotFoundError", "ValueError"}

PushReached ==
    \/ pc = "push"
    \/ pc = "raised" /\ exc = "NotImplementedError"

\* nothing was done yet: no bridge call, no copy, the counters untouched
Untouched ==
    /\ bridgeCalls = 0
    /\ log = <<>>
    /\ successes = NoneVal /\ errors = NoneVal /\ overwritten = NoneVal
    /\ skipped = <<>> /\ returned = <<>> /\ skipfiles = <<>>

(***************************************************************************)
(* C1. In pull_folder an entry whose lower-cased path holds a block-listed *)
(* text is never copied and its time never asked for (the bridge is called *)
(* for the two listings and for the kept entries only), and the entry is   *)
(* in the skipped list of its root.                                        *)
(***************************************************************************)
C1_BlockedNeverCopied ==
    /\ \A i \in 1..Len(log) :
          Blocked(log[i].file) =>
              /\ ~log[i].kept
              /\ log[i].pulls = 0
              /\ ~log[i].asked
              /\ log[i].outcome = "Skipped"
              /\ InList(SkipList, log[i].file)
    /\ pc \in {"for_file", "write_skipped"} => bridgeCalls = 2 + LoggedCalls(log)

\* a listing with a copied file and a path rejected only once lower-cased,
\* returned
C1_Witness ==
    /\ pc = "write_skipped"
    /\ \E i, j \in 1..Len(log) :
          /\ Blocked(log[i].file)
          /\ \A b \in BlockList : ~Contains(log[i].file, b)
          /\ InList(returned, log[i].file)
          /\ log[j].pulls = 1

C3_MissingAlwaysCopied ==
    \A i \in 1..Len(log) :
        (log[i].kept /\ ~log[i].existed) =>
            /\ log[i].pulls = 1
            /\ ~log[i].asked
            /\ log[i].outcome \in {"Success", "Error"}
            /\ ~InList(SkipList, log[i].file)
            /\ Dirname(LocalFile(log[i].file)) \in localDirs

\* with copy-if-newer on, a missing file was copied into a new directory
C3_Witness ==
    /\ copy_newer
    /\ \E i \in 1..Len(log) :
          /\ log[i].kept /\ ~log[i].existed
          /\ log[i].outcome = "Success"
          /\ localFS[LocalFile(log[i].file)].exists

(***************************************************************************)
(* C4. With copy-if-newer off, a pass of the loop over a kept path whose   *)
(* local file exists only appends the path to the skipped list: no bridge  *)
(* call, the counters and the local files unchanged.                       *)
(***************************************************************************)
C4_ExistingSkippedWhenOff ==
    [][ ( /\ pc = "for_file"
          /\ fi <= Len(remote_files)
          /\ ~copy_newer
          /\ Keep(remote_files[fi])
          /\ localFS[LocalFile(remote_files[fi])].exists )
        => /\ skipped' = Append(skipped, remote_files[fi])
           /\ successes' = successes
           /\ errors' = errors
           /\ overwritten' = overwritten
           /\ bridgeCalls' = bridgeCalls
           /\ localFS' = localFS
           /\ log'[Len(log')].outcome = "Skipped"
           /\ fi' = fi + 1 ]_vars

\* with copy-if-newer off, an existing file was skipped
C4_Witness ==
    /\ ~copy_newer
    /\ \E i \in 1..Len(log) :
          /\ log[i].kept /\ log[i].existed
          /\ log[i].outcome = "Skipped"
          /\ InList(SkipList, log[i].file)

(***************************************************************************)
(* C6. With copy-if-newer on and the local file there, an answer of the    *)
(* time query that is no integer (a fraction, or nothing) denies the       *)
(* overwrite: the pass makes the one query and no copy, appends the path   *)
(* to the skipped list, counts no error and goes on to the next entry.     *)
(***************************************************************************)
C6_UnparseableDenied ==
    [][ ( /\ pc = "for_file"
          /\ Len(log') = Len(log) + 1
          /\ log'[Len(log')].asked
          /\ log'[Len(log')].kind # "int" )
        => /\ copy_newer
           /\ log'[Len(log')].existed
           /\ log'[Len(log')].pulls = 0
           /\ skipped' = Append(skipped, remote_files[fi])
           /\ successes' = successes
           /\ errors' = errors
           /\ overwritten' = overwritten
           /\ bridgeCalls' = bridgeCalls + 1
           /\ localFS' = localFS
           /\ pc' = "for_file" /\ exc' = "none" /\ fi' = fi + 1 ]_vars

\* a fractional answer was skipped and the next entry was reached
C6_Witness ==
    \E i \in 1..Len(log) :
        /\ log[i].asked /\ log[i].kind = "frac"
        /\ log[i].outcome = "Skipped"
        /\ Len(log) > i
        /\ exc = "none"

(***************************************************************************)
(* C9 as amended. Push is reached only with --push and without --pull and  *)
(* fails at once with NotImplementedError, before any bridge call, copy or *)
(* counter change; with neither flag or with --pull alone the pull run is  *)
(* entered; with both flags the command is refused and neither runs.       *)
(***************************************************************************)
C9_PushFailsPullDefault ==
    /\ PushReached => (args.push /\ ~args.pull /\ Untouched)
    /\ pc # "main" =>
          IF args.push /\ args.pull
          THEN pc = "raised" /\ exc = "UsageError" /\ Untouched
          ELSE IF args.push THEN PushReached
          ELSE PullEntered

\* the push has failed
C9_Witness == pc = "raised" /\ exc = "NotImplementedError" /\ args.push

(***************************************************************************)
(* C9 as claimed: in every flag combination other than --push without      *)
(* --pull the pull run is executed.                                        *)
(***************************************************************************)
C9_Original ==
    /\ PushReached => (args.push /\ ~args.pull /\ Untouched)
    /\ pc # "main" =>
          IF args.push /\ ~args.pull THEN PushReached ELSE PullEntered

(***************************************************************************)
(* C10. While the loop of pull_folder runs, every entry of the split       *)
(* listing so far has one outcome: the counters are the counts of the      *)
(* outcomes, successes + errors + len(skipped) is the number of entries    *)
(* handled (at the end: of the listing), overwritten <= successes. The     *)
(* counters start at 0 and empty, are None and empty outside the loop, and *)
(* the returned list holds entries of the root's listing only.             *)
(***************************************************************************)
C10_Accounting ==
    /\ pc = "for_file" =>
          /\ Len(log) = fi - 1
          /\ fi - 1 <= Len(remote_files)
          /\ \A i \in 1..Len(log) : log[i].file = remote_files[i]
          /\ successes = CountOutcome({"Success", "Overwritten"})
          /\ errors = CountOutcome({"Error"})
          /\ overwritten = CountOutcome({"Overwritten"})
          /\ skipped = SkippedOfLog
          /\ successes + errors + Len(skipped) = fi - 1
          /\ overwritten <= successes
    /\ LoopDone => successes + errors + Len(skipped) = Len(remote_files)
    /\ (pc = "for_file" /\ fi = 1) =>
          (successes = 0 /\ errors = 0 /\ overwritten = 0 /\ skipped = <<>>)
    /\ pc # "for_file" =>
          /\ successes = NoneVal /\ errors = NoneVal /\ overwritten = NoneVal
          /\ skipped = <<>>
          /\ returned = SkippedOfLog
          /\ \A i \in 1..Len(returned) : InList(remote_files, returned[i])

\* the end of a loop with an overwrite, an error and a skipped entry
C10_Witness ==
    /\ LoopDone
    /\ overwritten >= 1
    /\ errors >= 1
    /\ Len(skipped) >= 1

(***************************************************************************)
(* C5 as claimed. A copy whose output holds the error marker counts as one *)
(* error and nothing else, is not retried, and the run goes on: when the   *)
(* run has ended, every entry of the listing and every root was handled.   *)
(***************************************************************************)
C5_ErrorDoesNotStopRun ==
    /\ \A i \in 1..Len(log) :
          log[i].marker => (log[i].outcome = "Error" /\ log[i].pulls = 1)
    /\ pc = "for_file" => errors = Cardinality({ i \in 1..Len(log) : log[i].marker })
    /\ (pc \in {"raised", "done"} /\ \E i \in 1..Len(log) : log[i].marker) =>
          /\ Len(log) = Len(remote_files)
          /\ Len(skipfiles) = Len(remote_folders)

(***************************************************************************)
(* C5 within one root: the error is counted once and the loop reaches the  *)
(* end of the listing.                                                     *)
(***************************************************************************)
C5_WithinRoot ==
    /\ \A i \in 1..Len(log) :
          log[i].marker => (log[i].outcome = "Error" /\ log[i].pulls = 1)
    /\ pc = "for_file" => errors = Cardinality({ i \in 1..Len(log) : log[i].marker })
    /\ pc \in {"write_skipped", "raised", "done"} => Len(log) = Len(remote_files)

(***************************************************************************)
(* C7 as claimed. When the bridge cannot be reached or a listing prints    *)
(* nothing, the enumeration is empty: no entry is handled, nothing is      *)
(* copied and no exception ends the run.                                   *)
(***************************************************************************)
C7_NoListingCompletes ==
    /\ (PullEntered /\ pc # "pull" /\ remote_folders_str = <<>>) =>
          (exc = "none" /\ log = <<>>)
    /\ (pc \in {"for_file", "write_skipped"} /\ remote_files_str = <<>>) =>
          remote_files = <<>>

(***************************************************************************)
(* C8 as claimed. No empty string is among the entries given an outcome,   *)
(* in the skipped list or the skip log, or among the roots of pull.        *)
(***************************************************************************)
C8_NoEmptyEntry ==
    /\ \A i \in 1..Len(log) : log[i].file # <<>>
    /\ ~InList(skipped, <<>>)
    /\ ~InList(returned, <<>>)
    /\ ~InList(remote_folders, <<>>)

(***************************************************************************)
(* C8, the roots alone: pull iterates no empty string.                     *)
(***************************************************************************)
C8_NoEmptyRoot == ~InList(remote_folders, <<>>)

=============================================================================
